---- MODULE Spec2Model ----
(***************************************************************************)
(* Model of the locale cog (emote_collector/extensions/locale.py) and of   *)
(* the message converters (utils/converter.py).                            *)
(*                                                                         *)
(* The locales table is a bag of rows [user, channel, guild, locale]; SQL  *)
(* NULL and Python None are the id 0.  The statements of the cog are       *)
(* operators on a table, the commands and methods are actions.             *)
(***************************************************************************)
EXTENDS Integers, Sequences, FiniteSets, Bags, TLC

VARIABLES
    locales,    \* the locales table: a bag of rows
    pending,    \* set_guild_locale calls between their DELETE and their INSERT
    last,       \* the operation that made the last step, and how it ended
    argument,   \* converter: the raw argument, a sequence of characters
    history,    \* converter: channel.history(), newest first
    result,     \* converter: what convert returned or raised
    errors,     \* converter: what the strategies tried so far raised, in order
    lookups     \* converter: the message lookups made, and how each ended

vars == <<locales, pending, last, argument, history, result, errors, lookups>>

localeVars == <<locales, pending, last>>
converterVars == <<argument, history, result, errors, lookups>>

-----------------------------------------------------------------------------
(* Bounds *)

MaxUser == 2
MaxGuild == 2
MaxChannel == 2
MaxTasks == 2
MaxHistory == 4
MaxArgLen == 3

-----------------------------------------------------------------------------
(* Identifiers and locale codes *)

NULL == 0

Users == 1..MaxUser
Guilds == 1..MaxGuild

\* channel.guild.id: every text channel belongs to one guild
GuildOf(c) == (c + 1) \div 2

Channels == {c \in 1..MaxChannel : GuildOf(c) \in Guilds}

\* i18n.locales and i18n.default_locale
i18n_locales == {"en_US", "de_DE"}
default_locale == "en_US"

\* what a user may type as a locale
LocaleArguments == i18n_locales \cup {"xx_XX"}

\* fetchval of a query that yields no row
None == "None"

\* a scalar subquery that matches more than one row
CardinalityViolation == "CardinalityViolationError"

Row(u, c, g, l) == [user |-> u, channel |-> c, guild |-> g, locale |-> l]

Rows == DOMAIN locales

-----------------------------------------------------------------------------
(* Reads *)

IsUserRow(r, u) == u # NULL /\ r.user = u
IsChannelRow(r, c) == c # NULL /\ r.channel = c
\* mutant: WHERE guild = $3 alone
IsGuildRow_any_channel(r, g) == g # NULL /\ r.guild = g

IsGuildRow(r, g) == g # NULL /\ r.guild = g /\ r.channel = NULL /\ r.user = NULL

\* number of rows of T (a bag) in the set S of distinct rows
Count(T, S) == BagCardinality([r \in S |-> T[r]])

\* (SELECT locale FROM locales WHERE ...) used as an expression
ScalarSubquery(T, S) ==
    IF S = {} THEN None
    ELSE IF Count(T, S) > 1 THEN CardinalityViolation
    ELSE (CHOOSE r \in S : TRUE).locale

UserSelect(T, u) == ScalarSubquery(T, {r \in DOMAIN T : IsUserRow(r, u)})
ChannelSelect(T, c) == ScalarSubquery(T, {r \in DOMAIN T : IsChannelRow(r, c)})
GuildSelect(T, g) == ScalarSubquery(T, {r \in DOMAIN T : IsGuildRow(r, g)})

\* COALESCE evaluates its arguments left to right and stops at the first
\* that is not null
COALESCE2(a, b) == IF a # None THEN a ELSE b

\* mutant: the channel tier before the user tier
user_channel_or_guild_locale_channel_first(T, user, channel, guild) ==
    COALESCE2(ChannelSelect(T, channel),
        COALESCE2(UserSelect(T, user), GuildSelect(T, guild)))

user_channel_or_guild_locale(T, user, channel, guild) ==
    COALESCE2(UserSelect(T, user),
        COALESCE2(ChannelSelect(T, channel), GuildSelect(T, guild)))

\* mutant: the guild tier before the channel tier
channel_or_guild_locale_guild_first(T, channel) ==
    COALESCE2(GuildSelect(T, GuildOf(channel)), ChannelSelect(T, channel))

channel_or_guild_locale(T, channel) ==
    COALESCE2(ChannelSelect(T, channel), GuildSelect(T, GuildOf(channel)))

guild_locale(T, guild) == GuildSelect(T, guild)

\* x or i18n.default_locale; an exception of the query propagates
OrDefault(x) == IF x = None THEN default_locale ELSE x

Messages ==
    [webhook_id : {NULL} \cup Users, author : Users, channel : Channels, inGuild : BOOLEAN]

\* get_locale_command with a channel: channel_or_guild_locale(channel) or
\* i18n.default_locale
get_locale_command(T, channel) == OrDefault(channel_or_guild_locale(T, channel))

locale(T, message) ==
    LET user == IF message.webhook_id # NULL THEN message.webhook_id ELSE message.author
        channel == IF message.inGuild THEN message.channel ELSE NULL
        guild == IF message.inGuild THEN GuildOf(message.channel) ELSE NULL
    IN  OrDefault(user_channel_or_guild_locale(T, user, channel, guild))

-----------------------------------------------------------------------------
(* Statements *)

\* DELETE FROM locales WHERE <the rows of S>
Delete(T, S) == [r \in (DOMAIN T) \ S |-> T[r]]

Insert(T, r) == T (+) SetToBag({r})

\* INSERT ... ON CONFLICT (<key>) DO UPDATE SET locale = EXCLUDED.locale,
\* S the rows that conflict with r on the key
Upsert(T, r, S) ==
    IF S = {} THEN Insert(T, r)
    ELSE LET old == CHOOSE x \in S : TRUE
         IN  Insert(Delete(T, {old}), [old EXCEPT !.locale = r.locale])

\* mutant: DELETE FROM locales WHERE guild = $1
set_guild_locale_DELETE_whole_guild(T, guild) ==
    Delete(T, {r \in DOMAIN T : guild # NULL /\ r.guild = guild})

set_guild_locale_DELETE(T, guild) ==
    Delete(T, {r \in DOMAIN T : IsGuildRow(r, guild)})

set_guild_locale_INSERT(T, guild, l) == Insert(T, Row(NULL, NULL, guild, l))

set_channel_locale(T, guild, channel, l) ==
    Upsert(T, Row(NULL, channel, guild, l),
        {r \in DOMAIN T : /\ guild # NULL /\ channel # NULL
                          /\ r.guild = guild /\ r.channel = channel})

\* mutant: a plain INSERT, no ON CONFLICT clause taking effect
set_user_locale_insert_only(T, user, l) == Insert(T, Row(user, NULL, NULL, l))

set_user_locale(T, user, l) ==
    Upsert(T, Row(user, NULL, NULL, l), {r \in DOMAIN T : IsUserRow(r, user)})

\* mutant: the id matched against every id column
delete_user_rows_any_column(T, user_id) ==
    Delete(T, {r \in DOMAIN T : user_id \in {r.user, r.channel, r.guild}})

delete_user_rows(T, user_id) == Delete(T, {r \in DOMAIN T : IsUserRow(r, user_id)})

\* mutant: the converter accepts every string
Locale_accepts_all(l) == TRUE

\* Locale(argument): the converter of the commands' locale parameter
Locale(l) == l \in i18n_locales

-----------------------------------------------------------------------------
(* Operations.  Every step records in last the operation that made it: its
   arguments, the permissions it read (FALSE when it read none), how it
   ended, and in before what the scope it wrote held before the step. *)

Call(op, u, c, g, l, before, manage_messages, is_owner, res) ==
    [op |-> op, user |-> u, channel |-> c, guild |-> g, locale |-> l,
     before |-> before, manage_messages |-> manage_messages, is_owner |-> is_owner,
     result |-> res, reaction |-> FALSE]

\* context.try_add_reaction(utils.SUCCESS_EMOJIS[True]), the last statement
\* of a set command
try_add_reaction(call) == [call EXCEPT !.reaction = TRUE]

\* an operation that ran its statements
Done(op, u, c, g, l, before, manage_messages, is_owner) ==
    Call(op, u, c, g, l, before, manage_messages, is_owner, "ok")

\* a command that raised: no statement ran; l is the argument the Locale
\* converter rejected, None when another test raised
Raised(op, l, manage_messages, is_owner, error) ==
    Call(op, NULL, NULL, NULL, l, None, manage_messages, is_owner, error)

InitLocales ==
    /\ locales = EmptyBag
    /\ pending = EmptyBag
    /\ last = Call("init", NULL, NULL, NULL, None, None, FALSE, FALSE, "ok")

\* the channels the TextChannel converter can yield in a context
ContextChannels(guild) ==
    IF guild = NULL THEN Channels ELSE {c \in Channels : GuildOf(c) = guild}

\* the permission test of set_locale_command: TRUE when it raises
MissingPermissions(manage_messages, is_owner) == ~manage_messages \/ ~is_owner

\* set_locale_command(context, channel, locale).  The inputs are drawn where
\* the handler reads them: the locale argument and the channel by the
\* converters, context.author and context.guild (NULL in a private channel)
\* and the author's permissions by the body.
set_locale_command ==
    /\ UNCHANGED <<pending, converterVars>>
    /\ \E l \in LocaleArguments :
        IF ~Locale(l)
        THEN /\ last' = Raised("set_locale_command", l, FALSE, FALSE, "InvalidLocaleError")
             /\ UNCHANGED locales
        ELSE
        \/ \E author \in Users :  \* channel is None
             /\ locales' = set_user_locale(locales, author, l)
             /\ last' = try_add_reaction(Done("set_locale_command", author, NULL, NULL, l,
                                              UserSelect(locales, author), FALSE, FALSE))
        \/ \E guild \in Guilds \cup {NULL} : \E channel \in ContextChannels(guild) :
             IF guild = NULL
             THEN \* a User has no guild_permissions
                  /\ last' = Raised("set_locale_command", None, FALSE, FALSE, "AttributeError")
                  /\ UNCHANGED locales
             ELSE \E manage_messages \in BOOLEAN, is_owner \in BOOLEAN :
                  IF MissingPermissions(manage_messages, is_owner)
                  THEN /\ last' = Raised("set_locale_command", None, manage_messages,
                                         is_owner, "MissingPermissions")
                       /\ UNCHANGED locales
                  ELSE /\ locales' = set_channel_locale(locales, guild, channel, l)
                       /\ last' = try_add_reaction(
                                      Done("set_locale_command", NULL, channel, guild, l,
                                           ChannelSelect(locales, channel),
                                           manage_messages, is_owner))

\* the has_permissions(manage_messages=True) check of set_guild_locale_command,
\* which runs before the arguments are converted
set_guild_locale_command_check(l, manage_messages) ==
    IF ~manage_messages THEN "MissingPermissions"
    ELSE IF ~Locale(l) THEN "InvalidLocaleError"
    ELSE "ok"

\* set_guild_locale_command(context, locale) in a guild; the two statements
\* of set_guild_locale in one step
set_guild_locale_command ==
    /\ UNCHANGED <<pending, converterVars>>
    /\ \E l \in LocaleArguments, manage_messages \in BOOLEAN :
        IF set_guild_locale_command_check(l, manage_messages) # "ok"
        THEN /\ last' = Raised("set_guild_locale_command",
                               IF manage_messages THEN l ELSE None, manage_messages, FALSE,
                               set_guild_locale_command_check(l, manage_messages))
             /\ UNCHANGED locales
        ELSE \E guild \in Guilds :
             /\ locales' = set_guild_locale_INSERT(
                                set_guild_locale_DELETE(locales, guild), guild, l)
             /\ last' = try_add_reaction(
                            Done("set_guild_locale_command", NULL, NULL, guild, l,
                                 GuildSelect(locales, guild), manage_messages, FALSE))

delete_user_account ==
    \E user_id \in Users :
        /\ locales' = delete_user_rows(locales, user_id)
        /\ last' = Done("delete_user_account", user_id, NULL, NULL, None,
                        UserSelect(locales, user_id), FALSE, FALSE)
        /\ UNCHANGED <<pending, converterVars>>

\* set_guild_locale(guild, locale) up to the end of its DELETE statement; the
\* call then waits for the pool before its INSERT
set_guild_locale_begin(guild, l) ==
    /\ BagCardinality(pending) < MaxTasks
    /\ locales' = set_guild_locale_DELETE(locales, guild)
    /\ pending' = pending (+) SetToBag({[guild |-> guild, locale |-> l]})
    /\ last' = Done("set_guild_locale.DELETE", NULL, NULL, guild, l, None, TRUE, FALSE)
    /\ UNCHANGED converterVars

\* the INSERT statement of a call that has run its DELETE, after which the
\* command adds its reaction
set_guild_locale_end(call) ==
    /\ locales' = set_guild_locale_INSERT(locales, call.guild, call.locale)
    /\ pending' = pending (-) SetToBag({call})
    /\ last' = try_add_reaction(
                   Done("set_guild_locale.INSERT", NULL, NULL, call.guild, call.locale,
                        None, TRUE, FALSE))
    /\ UNCHANGED converterVars

\* set_guild_locale_command with overlapping calls: the check and the Locale
\* converter, then set_guild_locale statement by statement
set_guild_locale_command_begin ==
    \E l \in LocaleArguments, manage_messages \in BOOLEAN :
        IF set_guild_locale_command_check(l, manage_messages) # "ok"
        THEN /\ last' = Raised("set_guild_locale_command",
                               IF manage_messages THEN l ELSE None, manage_messages, FALSE,
                               set_guild_locale_command_check(l, manage_messages))
             /\ UNCHANGED <<locales, pending, converterVars>>
        ELSE \E guild \in Guilds : set_guild_locale_begin(guild, l)

set_guild_locale_command_end == \E call \in DOMAIN pending : set_guild_locale_end(call)

\* The methods called directly, by code other than the two commands: the
\* locale drawn from locale_strings, the guild passed along with a channel any
\* guild or the channel's own
set_user_locale_call(locale_strings) ==
    \E user \in Users, l \in locale_strings :
        /\ locales' = set_user_locale(locales, user, l)
        /\ last' = Done("set_user_locale", user, NULL, NULL, l,
                        UserSelect(locales, user), FALSE, FALSE)
        /\ UNCHANGED <<pending, converterVars>>

set_channel_locale_call(any_guild, locale_strings) ==
    \E channel \in Channels, l \in locale_strings :
      \E guild \in (IF any_guild THEN Guilds ELSE {GuildOf(channel)}) :
        /\ locales' = set_channel_locale(locales, guild, channel, l)
        /\ last' = Done("set_channel_locale", NULL, channel, guild, l,
                        ChannelSelect(locales, channel), FALSE, FALSE)
        /\ UNCHANGED <<pending, converterVars>>

set_guild_locale_call(locale_strings) ==
    \E guild \in Guilds, l \in locale_strings :
        /\ locales' = set_guild_locale_INSERT(
                           set_guild_locale_DELETE(locales, guild), guild, l)
        /\ last' = Done("set_guild_locale", NULL, NULL, guild, l,
                        GuildSelect(locales, guild), FALSE, FALSE)
        /\ UNCHANGED <<pending, converterVars>>

-----------------------------------------------------------------------------
(* Converters (utils/converter.py).  An argument is a sequence of characters,
   the channel history a sequence of messages, newest first, whose first
   message is the invoking one. *)

Characters == {"-", "0", "1", "2", "x", "a", "A"}

Arguments == UNION {[1..n -> Characters] : n \in 1..MaxArgLen}

\* utils.SMALLEST_SNOWFLAKE, the least id the platform gives out, scaled to
\* the arguments of the model
SMALLEST_SNOWFLAKE == 10

\* message ids are snowflakes and grow with time: the i-th newest of n messages
MessageId(i, n) == SMALLEST_SNOWFLAKE + n - i

Histories ==
    UNION {{[i \in 1..n |-> [id |-> MessageId(i, n), author |-> authors[i]]] :
                authors \in [1..n -> Users]} : n \in 1..MaxHistory}

NoResult == [kind |-> "none", id |-> 0, text |-> ""]
Returned(message) == [kind |-> "message", id |-> message.id, text |-> ""]
BadArgument(text) == [kind |-> "BadArgument", id |-> 0, text |-> text]

DigitValue(ch) ==
    CASE ch = "0" -> 0 [] ch = "1" -> 1 [] ch = "2" -> 2 [] ch = "a" -> 10 [] OTHER -> 0

DecimalDigits == {"0", "1", "2"}
HexDigits == {"0", "1", "2", "a"}

AllIn(s, digits) == \A i \in 1..Len(s) : s[i] \in digits

RECURSIVE Value(_, _)
Value(s, base) ==
    IF s = <<>> THEN 0
    ELSE Value(SubSeq(s, 1, Len(s) - 1), base) * base + DigitValue(s[Len(s)])

ValueError == [ok |-> FALSE, value |-> 0]
Parsed(n) == [ok |-> TRUE, value |-> n]

\* the digits of int(s, base=0) after the sign: a 0x prefix and hexadecimal
\* digits, or decimal digits without a leading zero unless all are zero
Unsigned0(s) ==
    IF Len(s) >= 3 /\ s[1] = "0" /\ s[2] = "x" /\ AllIn(SubSeq(s, 3, Len(s)), HexDigits)
    THEN Parsed(Value(SubSeq(s, 3, Len(s)), 16))
    ELSE IF s # <<>> /\ AllIn(s, DecimalDigits) /\ (s[1] # "0" \/ AllIn(s, {"0"}))
    THEN Parsed(Value(s, 10))
    ELSE ValueError

Negated(p) == IF p.ok THEN Parsed(0 - p.value) ELSE p

\* int(s, base=0)
int_base0(s) ==
    IF s # <<>> /\ s[1] = "-" THEN Negated(Unsigned0(Tail(s))) ELSE Unsigned0(s)

\* utils.get_message_by_offset(channel, index): the outcomes it can have.  For
\* an index >= 0 the message at that position behind the invoking message, or
\* a failure when the history ends before it; nothing is known for an index
\* below 0, where every message of the history and the failure are possible.
get_message_by_offset(h, index) ==
    IF index >= 0
    THEN IF index + 2 <= Len(h)
         THEN {Returned(h[index + 2])}
         ELSE {BadArgument("Message not found.")}
    ELSE {Returned(h[i]) : i \in 1..Len(h)} \cup {BadArgument("Message not found.")}

\* the index OffsetMessage.convert computes from the parsed integer
OffsetOf(n) == n - 1  \* skip the invoking message

\* OffsetMessage.convert(context, offset): the outcomes it can have
OffsetMessage_convert(h, arg) ==
    LET n == int_base0(arg) IN
    IF ~n.ok THEN {BadArgument("Not a valid integer.")}
    ELSE IF OffsetOf(n.value) < 0 THEN get_message_by_offset(h, OffsetOf(n.value))
    ELSE {BadArgument("Not a message offset.")}

ConverterIdle ==
    /\ argument = <<>>
    /\ history = <<>>
    /\ result = NoResult
    /\ errors = <<>>
    /\ lookups = {}

InitConverter ==
    /\ argument \in Arguments
    /\ history \in Histories
    /\ result = NoResult
    /\ errors = <<>>
    /\ lookups = {}

\* the OffsetMessage converter run on the argument of a command
convert_OffsetMessage ==
    /\ result = NoResult
    /\ result' \in OffsetMessage_convert(history, argument)
    /\ UNCHANGED <<argument, history, errors, lookups, localeVars>>

\* int(s): decimal digits after an optional sign, leading zeros allowed
int_base10(s) ==
    LET digits == IF s # <<>> /\ s[1] = "-" THEN Tail(s) ELSE s IN
    IF digits # <<>> /\ AllIn(digits, DecimalDigits)
    THEN IF s[1] = "-" THEN Negated(Parsed(Value(digits, 10))) ELSE Parsed(Value(digits, 10))
    ELSE ValueError

\* _validate_snowflake(argument): the id, or the BadArgument it raises
validate_snowflake(arg) ==
    LET id == int_base10(arg) IN
    IF ~id.ok THEN BadArgument("Not a valid integer.")
    ELSE IF id.value < SMALLEST_SNOWFLAKE THEN BadArgument("Not a valid message ID.")
    ELSE [kind |-> "id", id |-> id.value, text |-> ""]

\* the names bound in the module by its import statements
ModuleNames == {"typing", "commands", "utils"}

NotFound == [kind |-> "NotFound", id |-> 0, text |-> ""]
Forbidden == [kind |-> "Forbidden", id |-> 0, text |-> ""]
NameError(name) == [kind |-> "NameError", id |-> 0, text |-> name]

\* channel.get_message(id): the message of the channel with that id, NotFound
\* when there is none, Forbidden when the bot may not read the channel
get_message(h, id) ==
    {Forbidden} \cup
        IF \E i \in 1..Len(h) : h[i].id = id
        THEN {Returned(h[i]) : i \in {j \in 1..Len(h) : h[j].id = id}}
        ELSE {NotFound}

Lookup(by, outcome) == [by |-> by, outcome |-> outcome]
Outcome(res, looked) == [result |-> res, lookups |-> looked]

\* what the except clauses of IDMessage.convert make of a failed fetch:
\* evaluating `discord.NotFound` needs the name discord
IDMessage_except(raised) ==
    IF "discord" \notin ModuleNames THEN NameError("discord")
    ELSE IF raised = NotFound
    THEN BadArgument("Message not found! Make sure your message ID is correct.")
    ELSE IF raised = Forbidden
    THEN BadArgument("Permission denied! Make sure the bot has permission to read that message.")
    ELSE raised

\* IDMessage.convert(context, id): the outcomes it can have
IDMessage_convert(h, arg) ==
    LET id == validate_snowflake(arg) IN
    IF id.kind # "id" THEN {Outcome(id, {})}
    ELSE {Outcome(IF fetched.kind = "message" THEN fetched ELSE IDMessage_except(fetched),
                  {Lookup("IDMessage", fetched.kind)}) : fetched \in get_message(h, id.id)}

\* the IDMessage converter run on the argument of a command
convert_IDMessage ==
    /\ result = NoResult
    /\ \E o \in IDMessage_convert(history, argument) :
        /\ result' = o.result
        /\ lookups' = lookups \cup o.lookups
    /\ UNCHANGED <<argument, history, errors, localeVars>>

\* the name of a member of the guild
MemberName(u) == [i \in 1..u |-> "a"]

\* commands.MemberConverter().convert(context, argument): the member of that
\* name, or the BadArgument it raises
MemberConverter_convert(arg) ==
    IF \E u \in Users : MemberName(u) = arg
    THEN [kind |-> "member", id |-> CHOOSE u \in Users : MemberName(u) = arg, text |-> ""]
    ELSE BadArgument("Member not found")

\* context.message, the invoking message
context_message(h) == h[1]

\* context.author
context_author(h) == h[1].author

search_for_message_oldest(h, matching) ==
    IF matching # {}
    THEN Returned(h[CHOOSE i \in matching : \A j \in matching : i >= j])
    ELSE BadArgument("Message not found.")

\* _search_for_message(target, predicate), for the positions of the history
\* at which the predicate holds: the first of them
search_for_message(h, matching) ==
    IF matching # {}
    THEN Returned(h[CHOOSE i \in matching : \A j \in matching : i <= j])
    ELSE BadArgument("Message not found.")

ScanOutcome(res) == IF res.kind = "message" THEN "message" ELSE "NotFound"

\* the predicate of MemberMessage.convert
MemberMessage_predicate(h, m, message) ==
    message.id # context_message(h).id /\ message.author = context_author(h)

\* MemberMessage.convert(context, argument): the outcomes it can have
MemberMessage_convert(h, arg) ==
    LET m == MemberConverter_convert(arg) IN
    IF m.kind # "member" THEN {Outcome(m, {})}
    ELSE LET found == search_for_message(h,
                 {i \in 1..Len(h) : MemberMessage_predicate(h, m.id, h[i])}) IN
         {Outcome(found, {Lookup("MemberMessage", ScanOutcome(found))})}

\* the MemberMessage converter run on the argument of a command
convert_MemberMessage ==
    /\ result = NoResult
    /\ \E o \in MemberMessage_convert(history, argument) :
        /\ result' = o.result
        /\ lookups' = lookups \cup o.lookups
    /\ UNCHANGED <<argument, history, errors, localeVars>>

\* the text of a custom emote, <:name:id> or <a:name:id> when animated
EmoteText(animated, name, id) ==
    <<"<">> \o (IF animated THEN <<"a">> ELSE <<>>) \o <<":">> \o name \o <<":">> \o id \o <<">">>

\* what the messages of the model say
Contents ==
    { EmoteText(TRUE, <<"x">>, <<"2">>) \o <<"1", "2">>,
      EmoteText(FALSE, <<"A">>, <<"1">>) \o <<"2">>,
      <<"A", "a">> }

\* histories of messages with a content, their authors drawn from a set
HistoriesWith(authors, maxLen) ==
    UNION {{[i \in 1..n |-> [id |-> MessageId(i, n), author |-> by[i], content |-> says[i]]] :
                by \in [1..n -> authors], says \in [1..n -> Contents]} : n \in 1..maxLen}

WordCharacters == {"0", "1", "2", "x", "a", "A", "_"}

\* the position after the run of characters of a set that starts at i
RECURSIVE RunEnd(_, _, _)
RunEnd(s, i, set) ==
    IF i <= Len(s) /\ s[i] \in set THEN RunEnd(s, i + 1, set) ELSE i

At(s, i, ch) == i <= Len(s) /\ s[i] = ch

\* utils.emote.RE_CUSTOM_EMOTE, <a?:(?P<name>\w+):(?P<id>\d+)>, matched at
\* position i: whether it matches, the name group, the position after it
RE_CUSTOM_EMOTE(s, i) ==
    LET nameStart == IF At(s, i + 1, "a") /\ At(s, i + 2, ":") THEN i + 3 ELSE i + 2
        nameEnd == RunEnd(s, nameStart, WordCharacters)
        idEnd == RunEnd(s, nameEnd + 1, DecimalDigits)
    IN  [matches |-> /\ At(s, i, "<")
                     /\ At(s, nameStart - 1, ":")
                     /\ nameEnd > nameStart
                     /\ At(s, nameEnd, ":")
                     /\ idEnd > nameEnd + 1
                     /\ At(s, idEnd, ">"),
         name |-> SubSeq(s, nameStart, nameEnd - 1),
         end |-> idEnd + 1]

\* RE_CUSTOM_EMOTE.sub(emote_to_name, s), from position i on
RECURSIVE sub_emote_to_name(_, _)
sub_emote_to_name(s, i) ==
    IF i > Len(s) THEN <<>>
    ELSE LET match == RE_CUSTOM_EMOTE(s, i) IN
         IF match.matches THEN match.name \o sub_emote_to_name(s, match.end)
         ELSE <<s[i]>> \o sub_emote_to_name(s, i + 1)

\* str.casefold()
casefold(s) == [i \in 1..Len(s) |-> IF s[i] = "A" THEN "a" ELSE s[i]]

\* normalize(message) of KeywordMessage.convert
normalize(content) == casefold(sub_emote_to_name(content, 1))

\* Python's `part in text` for strings
Contains(text, part) ==
    \E i \in 0..(Len(text) - Len(part)) : SubSeq(text, i + 1, i + Len(part)) = part

\* the predicate of KeywordMessage.convert
KeywordMessage_predicate(h, arg, message) ==
    /\ message.id # context_message(h).id
    /\ Contains(normalize(message.content), casefold(arg))

\* KeywordMessage.convert(context, argument): the outcomes it can have
KeywordMessage_convert(h, arg) ==
    LET found == search_for_message(h,
            {i \in 1..Len(h) : KeywordMessage_predicate(h, arg, h[i])}) IN
    {Outcome(found, {Lookup("KeywordMessage", ScanOutcome(found))})}

\* the author of a message plays no part in KeywordMessage: one author
InitKeyword ==
    /\ argument \in Arguments
    /\ history \in HistoriesWith({1}, MaxHistory)
    /\ result = NoResult
    /\ errors = <<>>
    /\ lookups = {}

\* the KeywordMessage converter run on the argument of a command
convert_KeywordMessage ==
    /\ result = NoResult
    /\ \E o \in KeywordMessage_convert(history, argument) :
        /\ result' = o.result
        /\ lookups' = lookups \cup o.lookups
    /\ UNCHANGED <<argument, history, errors, localeVars>>

\* OffsetMessage.convert with the lookup it makes
OffsetMessage_outcomes(h, arg) ==
    LET n == int_base0(arg)
        looks == n.ok /\ OffsetOf(n.value) < 0
    IN  {Outcome(res, IF looks THEN {Lookup("OffsetMessage", ScanOutcome(res))} ELSE {}) :
            res \in OffsetMessage_convert(h, arg)}

\* Message = typing.Union[OffsetMessage, IDMessage, MemberMessage, KeywordMessage]
Message == <<"OffsetMessage", "IDMessage", "MemberMessage", "KeywordMessage">>

BadUnionArgument == [kind |-> "BadUnionArgument", id |-> 0, text |-> ""]

\* one turn of the loop the command framework runs over the converters of a
\* Union: the value of the converter if it returns one; what it raised is
\* kept (an error that is no CommandError wrapped in a ConversionError) and
\* the next converter is tried, BadUnionArgument raised after the last
try(k, outcomes) ==
    /\ \E o \in outcomes :
        /\ lookups' = lookups \cup o.lookups
        /\ IF o.result.kind = "message"
           THEN result' = o.result /\ UNCHANGED errors
           ELSE /\ errors' = Append(errors, [by |-> Message[k], raised |-> o.result])
                /\ result' = IF k = Len(Message) THEN BadUnionArgument ELSE NoResult
    /\ UNCHANGED <<argument, history, localeVars>>

turn_after_return(k) == Len(errors) = k - 1

\* the converter whose turn it is: none once a value was returned
turn(k) == result = NoResult /\ Len(errors) = k - 1

try_OffsetMessage ==
    /\ turn(1)
    /\ try(1, OffsetMessage_outcomes(history, argument))

try_IDMessage ==
    /\ turn(2)
    /\ try(2, IDMessage_convert(history, argument))

try_MemberMessage ==
    /\ turn(3)
    /\ try(3, MemberMessage_convert(history, argument))

try_KeywordMessage ==
    /\ turn(4)
    /\ try(4, KeywordMessage_convert(history, argument))

InitMessage ==
    /\ argument \in Arguments
    /\ history \in HistoriesWith(Users, MaxHistory - 1)
    /\ result = NoResult
    /\ errors = <<>>
    /\ lookups = {}

-----------------------------------------------------------------------------
(* Spec: the commands of the cog, handled one at a time *)

Init == InitLocales /\ ConverterIdle

Next ==
    \/ set_locale_command
    \/ set_guild_locale_command
    \/ delete_user_account

Spec == Init /\ [][Next]_vars

(* SpecConc: the same commands, the statements of overlapping calls of
   set_guild_locale interleaved *)

NextConc ==
    \/ set_locale_command
    \/ set_guild_locale_command_begin
    \/ set_guild_locale_command_end
    \/ delete_user_account

SpecConc == Init /\ [][NextConc]_vars

(* SpecAPI: the methods of the cog called directly, one call at a time, with
   a supported locale and any guild *)

any_guild_set_user_locale == set_user_locale_call(i18n_locales)
any_guild_set_channel_locale == set_channel_locale_call(TRUE, i18n_locales)
any_guild_set_guild_locale == set_guild_locale_call(i18n_locales)

NextAPI ==
    \/ any_guild_set_user_locale
    \/ any_guild_set_channel_locale
    \/ any_guild_set_guild_locale
    \/ delete_user_account

SpecAPI == Init /\ [][NextAPI]_vars

(* SpecRaw: the commands, and the methods called directly with a string that
   is no supported locale, a channel with its own guild *)

raw_set_user_locale == set_user_locale_call(LocaleArguments \ i18n_locales)
raw_set_channel_locale == set_channel_locale_call(FALSE, LocaleArguments \ i18n_locales)
raw_set_guild_locale == set_guild_locale_call(LocaleArguments \ i18n_locales)

NextRaw ==
    \/ set_locale_command
    \/ set_guild_locale_command
    \/ delete_user_account
    \/ raw_set_user_locale
    \/ raw_set_channel_locale
    \/ raw_set_guild_locale

SpecRaw == Init /\ [][NextRaw]_vars

(* SpecConvert: one conversion of an argument in a channel *)

InitConvert == InitLocales /\ InitConverter

NextConvert ==
    \/ convert_OffsetMessage

SpecConvert == InitConvert /\ [][NextConvert]_vars

(* SpecIDMessage: one conversion by IDMessage *)

NextIDMessage ==
    \/ convert_IDMessage

SpecIDMessage == InitConvert /\ [][NextIDMessage]_vars

(* SpecMemberMessage: one conversion by MemberMessage *)

NextMemberMessage ==
    \/ convert_MemberMessage

SpecMemberMessage == InitConvert /\ [][NextMemberMessage]_vars

(* SpecKeywordMessage: one conversion by KeywordMessage *)

NextKeywordMessage ==
    \/ convert_KeywordMessage

InitKeywordMessage == InitLocales /\ InitKeyword

SpecKeywordMessage == InitKeywordMessage /\ [][NextKeywordMessage]_vars

(* SpecMessage: one conversion by the Union of the four converters *)

NextMessage ==
    \/ try_OffsetMessage
    \/ try_IDMessage
    \/ try_MemberMessage
    \/ try_KeywordMessage

InitUnion == InitLocales /\ InitMessage

SpecMessage == InitUnion /\ [][NextMessage]_vars

-----------------------------------------------------------------------------
(* Claims about the locale cog *)

UserRows(T, u) == {r \in DOMAIN T : u # NULL /\ r.user = u}
ChannelRows(T, c) == {r \in DOMAIN T : c # NULL /\ r.channel = c}
GuildRows(T, g) ==
    {r \in DOMAIN T : g # NULL /\ r.guild = g /\ r.channel = NULL /\ r.user = NULL}

\* the user a message's locale is looked up for
Author(m) == IF m.webhook_id # NULL THEN m.webhook_id ELSE m.author

AnyChannel == Channels \cup {NULL}
AnyGuildId == Guilds \cup {NULL}

WroteUser == last.result = "ok" /\ last.user # NULL /\ last.op \in {"set_locale_command", "set_user_locale"}
WroteChannel == last.result = "ok" /\ last.channel # NULL /\ last.op \in {"set_locale_command", "set_channel_locale"}
WroteGuild == last.result = "ok" /\ last.op \in {"set_guild_locale_command", "set_guild_locale"}

\* C1: whenever a user-scoped row exists for a user, resolution
\* (user_channel_or_guild_locale, and locale for a message of that user) returns
\* that row's locale, whatever rows the channel and the guild have.
C1_UserRowWins ==
    /\ \A u \in Users, c \in AnyChannel, g \in AnyGuildId : \A r \in UserRows(locales, u) :
           user_channel_or_guild_locale(locales, u, c, g) = r.locale
    /\ \A m \in Messages : \A r \in UserRows(locales, Author(m)) :
           locale(locales, m) = r.locale

\* a user row under a channel row with another locale and a guild whose
\* default lookup matches two rows
C1_Witness ==
    \E u \in Users, c \in Channels :
        /\ UserRows(locales, u) # {}
        /\ \E r \in ChannelRows(locales, c) : \A x \in UserRows(locales, u) : x.locale # r.locale
        /\ Count(locales, GuildRows(locales, GuildOf(c))) > 1

C3_SetUserLocaleUpsert ==
    WroteUser =>
        /\ Count(locales, UserRows(locales, last.user)) = 1
        /\ \A r \in UserRows(locales, last.user) : r.locale = last.locale
        /\ \A c \in AnyChannel, g \in AnyGuildId :
               user_channel_or_guild_locale(locales, last.user, c, g) = last.locale
        /\ \A m \in Messages : Author(m) = last.user => locale(locales, m) = last.locale

\* a second call for the user, with another locale than the row held
C3_Witness == WroteUser /\ last.before \notin {None, last.locale}

C5_DeleteUserOnly ==
    [][last'.op = "delete_user_account" =>
        /\ UserRows(locales', last'.user) = {}
        /\ \A r \in DOMAIN locales \cup DOMAIN locales' :
               r.user # last'.user => CopiesIn(r, locales') = CopiesIn(r, locales)]_vars

\* the row of a user deleted while a channel row and a guild-default row carry
\* the same number as ids, and another user has a row
C5_Witness ==
    /\ last.op = "delete_user_account"
    /\ last.before # None
    /\ ChannelRows(locales, last.user) # {}
    /\ GuildRows(locales, last.user) # {}
    /\ \E r \in Rows : r.user \notin {NULL, last.user}

\* C6: set_channel_locale is an upsert keyed by channel alone: at most one row
\* per channel whatever guilds were passed, and channel_or_guild_locale of the
\* channel returns the locale of the last call.
C6_ChannelKeyAlone ==
    /\ \A c \in Channels : Count(locales, ChannelRows(locales, c)) <= 1
    /\ WroteChannel => channel_or_guild_locale(locales, last.channel) = last.locale

IsCommand(op) == op \in {"set_locale_command", "set_guild_locale_command"}

C8_LocaleNeverFails ==
    \A m \in Messages : locale(locales, m) \in i18n_locales

UserScoped(r) == r.user # NULL /\ r.channel = NULL /\ r.guild = NULL
ChannelScoped(r) == r.channel # NULL /\ r.user = NULL
GuildDefault(r) == r.guild # NULL /\ r.channel = NULL /\ r.user = NULL

\* C17: in every state the set methods and delete_user_account reach, each
\* row is user-scoped, channel-scoped or a guild default, and no two rows
\* share a user, a channel, or the guild of a guild default.
C17_StoreInvariant ==
    /\ \A r \in Rows : UserScoped(r) \/ ChannelScoped(r) \/ GuildDefault(r)
    /\ \A u \in Users : Count(locales, UserRows(locales, u)) <= 1
    /\ \A c \in Channels : Count(locales, ChannelRows(locales, c)) <= 1
    /\ \A g \in Guilds : Count(locales, GuildRows(locales, g)) <= 1

\* C18: when the second of two overlapping set_guild_locale calls for one
\* guild completes, the guild has exactly one guild-default row, holding the
\* locale of one of the two calls.
C18_ConcurrentSetGuildLocale ==
    [][(/\ last.op = "set_guild_locale.INSERT"
        /\ last'.op = "set_guild_locale.INSERT"
        /\ last'.guild = last.guild
        /\ pending' = EmptyBag) =>
            /\ Count(locales', GuildRows(locales', last'.guild)) = 1
            /\ \A r \in GuildRows(locales', last'.guild) :
                   r.locale \in {last.locale, last'.locale}]_vars

\* set_locale_command was given a channel, in a guild
ChannelGiven(call) ==
    /\ call.op = "set_locale_command"
    /\ call.result = "MissingPermissions" \/ (call.result = "ok" /\ call.channel # NULL)

\* C19: set_locale_command with a channel writes the channel's row and adds
\* the success reaction if and only if the author has Manage Messages, and
\* otherwise raises MissingPermissions, changes no row and adds no reaction;
\* without a channel it writes the author's row whatever the permissions.
C19_ManageMessagesSuffices ==
    [][/\ ChannelGiven(last') =>
            IF last'.manage_messages
            THEN /\ last'.result = "ok"
                 /\ last'.reaction
                 /\ \A r \in ChannelRows(locales', last'.channel) : r.locale = last'.locale
                 /\ ChannelRows(locales', last'.channel) # {}
            ELSE /\ last'.result = "MissingPermissions"
                 /\ ~last'.reaction
                 /\ locales' = locales
       /\ (last'.op = "set_locale_command" /\ last'.result = "ok" /\ last'.user # NULL) =>
            /\ last'.reaction
            /\ \A r \in UserRows(locales', last'.user) : r.locale = last'.locale
            /\ UserRows(locales', last'.user) # {}]_vars

-----------------------------------------------------------------------------
(* Claims about the converters *)

\* C10: for an argument that parses as an integer N the offset strategy fails
\* with BadArgument when N - 1 < 0, and when N - 1 >= 0 returns the message at
\* position N - 1 behind the invoking message (position 0 the message right
\* before it), so that "2" yields M2 of [M0 invoking, M1, M2, M3].
C10_OffsetStrategy ==
    (result # NoResult /\ int_base0(argument).ok) =>
        LET N == int_base0(argument).value IN
        /\ N - 1 < 0 => result.kind = "BadArgument"
        /\ (N - 1 >= 0 /\ N + 1 <= Len(history)) => result = Returned(history[N + 1])

\* C15: IDMessage.convert ends with BadArgument 'Message not found...' when the
\* fetch of a valid id reports the message absent, with BadArgument
\* 'Permission denied...' when the fetch is disallowed, with 'Not a valid
\* integer.' for an argument that is no integer, and nothing but a message or
\* a BadArgument ever leaves the converter.
C15_IDMessageErrors ==
    result # NoResult =>
        /\ ~int_base10(argument).ok => result = BadArgument("Not a valid integer.")
        /\ Lookup("IDMessage", "NotFound") \in lookups =>
               result = BadArgument("Message not found! Make sure your message ID is correct.")
        /\ Lookup("IDMessage", "Forbidden") \in lookups =>
               result = BadArgument("Permission denied! Make sure the bot has permission to read that message.")
        /\ result.kind \in {"message", "BadArgument"}

\* positions of the history, other than the invoking message, whose message
\* the user wrote
WrittenBy(h, u) == {i \in 1..Len(h) : h[i].author = u /\ h[i].id # h[1].id}

\* C12: when the argument resolves to member A, MemberMessage.convert returns
\* the most recent message of the history that A wrote and that is not the
\* invoking message, whoever the invoking author is, and fails with 'Message
\* not found.' if there is none.
C12_MemberStrategy ==
    (result # NoResult /\ MemberConverter_convert(argument).kind = "member") =>
        LET A == MemberConverter_convert(argument).id IN
        IF WrittenBy(history, A) = {}
        THEN result = BadArgument("Message not found.")
        ELSE \E i \in WrittenBy(history, A) :
                 /\ \A j \in WrittenBy(history, A) : i <= j
                 /\ result = Returned(history[i])

\* positions of the history, behind the invoking message, whose content with
\* every emote replaced by its name contains the keyword, case ignored
Mentions(h, keyword) ==
    {i \in 2..Len(h) : Contains(normalize(h[i].content), casefold(keyword))}

\* C13: KeywordMessage.convert returns the first message in reverse
\* chronological order, other than the invoking message, whose content, after
\* every custom emote is replaced by its bare name and the case is folded,
\* contains the case-folded argument; older matches are never returned, and
\* it fails with 'Message not found.' when no message matches.
C13_KeywordStrategy ==
    result # NoResult =>
        /\ Mentions(history, argument) = {} => result = BadArgument("Message not found.")
        /\ \A i \in Mentions(history, argument) :
               (\A j \in Mentions(history, argument) : i <= j) => result = Returned(history[i])
        /\ result.kind = "message" => result.id # history[1].id

\* a keyword with an upper-case letter that the invoking message and an older
\* message contain too, found in the name of an emote of the third message
\* after the second message was passed over
C13_Witness ==
    /\ result.kind = "message"
    /\ Len(history) = 4
    /\ result = Returned(history[3])
    /\ Mentions(history, argument) = {3, 4}
    /\ Contains(normalize(history[1].content), casefold(argument))
    /\ argument # casefold(argument)
    /\ ~Contains(casefold(history[3].content), casefold(argument))

\* the conversion has ended
Resolved == result # NoResult

\* the argument reads as the same integer to both int(s, base=0) and int(s)
Numeric(arg) == int_base0(arg).ok /\ int_base10(arg).ok

LookedUpBy == {l.by : l \in lookups}

\* C11: the Union resolves a numeric argument >= SMALLEST_SNOWFLAKE to the
\* message with that id, fetched by id, and never fetches by id for a numeric
\* argument below SMALLEST_SNOWFLAKE, which it resolves as an offset.
C11_IdentifierOrOffset ==
    (Resolved /\ Numeric(argument)) =>
        LET N == int_base10(argument).value IN
        /\ N >= SMALLEST_SNOWFLAKE =>
               /\ result.kind = "message" => result.id = N
               /\ Lookup("IDMessage", "message") \in lookups =>
                      result.kind = "message" /\ result.id = N
        /\ N < SMALLEST_SNOWFLAKE =>
               /\ "IDMessage" \notin LookedUpBy
               /\ "OffsetMessage" \in LookedUpBy

\* what a converter of the Union can return or raise for the argument
Results(k) ==
    {o.result : o \in CASE k = 1 -> OffsetMessage_outcomes(history, argument)
                        [] k = 2 -> IDMessage_convert(history, argument)
                        [] k = 3 -> MemberMessage_convert(history, argument)
                        [] OTHER -> KeywordMessage_convert(history, argument)}

Position(by) == CHOOSE k \in 1..Len(Message) : Message[k] = by

\* C14: the Union tries OffsetMessage, IDMessage, MemberMessage and
\* KeywordMessage in this order and returns what the first that succeeds
\* returns; once one has succeeded no later one runs, and the resolution
\* fails only after all four have failed.
C14_FixedOrder ==
    [][LET k == Len(errors) + 1 IN
       /\ ~Resolved
       /\ k <= Len(Message)
       /\ \/ /\ result'.kind = "message"
             /\ result' \in Results(k)
             /\ errors' = errors
          \/ /\ Len(errors') = k
             /\ SubSeq(errors', 1, k - 1) = errors
             /\ errors'[k].by = Message[k]
             /\ errors'[k].raised \in Results(k)
             /\ errors'[k].raised.kind # "message"
             /\ result' = IF k = Len(Message) THEN BadUnionArgument ELSE NoResult
       /\ \A l \in lookups' : Position(l.by) <= k]_vars

\* MemberMessage returned a message after OffsetMessage and IDMessage had
\* failed, where KeywordMessage would have returned another message
C14_Witness ==
    /\ result.kind = "message"
    /\ Len(errors) = 2
    /\ LookedUpBy = {"MemberMessage"}
    /\ \E o \in KeywordMessage_convert(history, argument) :
           o.result.kind = "message" /\ o.result # result

\* C16: in one resolution exactly one strategy makes its message lookup: a
\* fetch by id that ended NotFound or Forbidden, or a scan for a resolved
\* member's message that found none, ends the resolution with that error and
\* no later strategy runs.
C16_OneLookup ==
    /\ Cardinality(LookedUpBy) <= 1
    /\ Resolved =>
        /\ Cardinality(LookedUpBy) = 1
        /\ (\E l \in lookups : l.by \in {"IDMessage", "MemberMessage"} /\ l.outcome # "message") =>
               /\ result.kind \notin {"message", "BadUnionArgument"}
               /\ errors[Len(errors)].by \in {"IDMessage", "MemberMessage"}

====
